---- MODULE Spec2Model ----
(***************************************************************************)
(* Library reservation client: the reservation policy registry             *)
(* (services/reservation-policy-service.ts), the reserve workflow of a     *)
(* book card (components/BookCard.tsx), the cancel workflow of the         *)
(* reservations screen (app/(tabs)/reservations.tsx) and the GraphQL       *)
(* service they call (services/graphql-service.ts), against a data store   *)
(* holding books and reservations; the authentication context, the         *)
(* authentication service (services/auth-service.ts) and the root layout.  *)
(***************************************************************************)
EXTENDS Integers, Sequences, FiniteSets, Bags, TLC

VARIABLES
    policies,               \* ReservationPolicyFactory.policies : Map<string, policy>
    lastCall,               \* the last call of a ReservationService method and its result
    books,                  \* data store: books table (total_copies, available_copies)
    reservations,           \* data store: reservations table, id = index
    cacheBooks,             \* Apollo cache: available_copies per book (BOOKS_QUERY)
    cacheRes,               \* Apollo cache: RESERVATIONS_QUERY result for the user
    card,                   \* one BookCard per book: handleReserve's position and locals
    cancellingReservation,  \* ReservationsScreen state (0 stands for null)
    cancelOp,               \* bag of the running executions of handleCancelReservation
    alert,                  \* the Alert.alert shown by the last step, if any
    auth                    \* AuthProvider state, AuthService.currentUser, AsyncStorage session

vars == <<policies, lastCall, books, reservations, cacheBooks, cacheRes, card,
          cancellingReservation, cancelOp, alert, auth>>

storeVars == <<books, reservations>>
cacheVars == <<cacheBooks, cacheRes>>
cancelVars == <<cancellingReservation, cancelOp>>
lifecycleVars == <<books, reservations, cacheBooks, cacheRes, card,
                   cancellingReservation, cancelOp, alert>>

----------------------------------------------------------------------------
(* Bounds of the model *)

MaxCount == 6          \* counts passed to canUserReserve range over 0..MaxCount
MaxCopies == 2         \* total_copies of every book
MaxRes == 6            \* rows the reservations table can hold in SpecReserve
InitRows == 2          \* reservations the user holds when SpecCancel starts
MaxCancelOps == 2      \* executions of handleCancelReservation running at once
MaxRows == 1           \* rows the reservations table can hold in Spec
SpecCopies == 2        \* total_copies of every book in Spec
SpecCancelOps == 1     \* executions of handleCancelReservation running at once in Spec
Year0 == 2023          \* the clock reads day 0 on 1 January of this year
FirstDay == 350        \* the clock reads a day of FirstDay..MaxDay: the end of Year0
MaxDay == 430          \*   up to the days after the leap day of the next year

----------------------------------------------------------------------------
(* services/reservation-policy-service.ts *)

UserTypes == {"student", "normal", "vip"}

StudentReservationPolicy == "StudentReservationPolicy"
NormalUserReservationPolicy == "NormalUserReservationPolicy"
PolicyClasses == {StudentReservationPolicy, NormalUserReservationPolicy}

NoPolicy == "undefined"             \* Map.get of an absent key
PolicyError == "No policy found"    \* the Error thrown by getPolicy

\* policy.getMaxReservations()
policyMaxReservations(p) ==
    IF p = StudentReservationPolicy THEN 5 ELSE 3

\* mutant: every policy lends for a week
policyDurationDaysWeek(p) == 7

\* policy.getReservationDurationDays()
policyDurationDays(p) ==
    IF p = StudentReservationPolicy THEN 14 ELSE 7

\* the user type a concrete policy class compares user.user_type with
policyUserType(p) ==
    IF p = StudentReservationPolicy THEN "student" ELSE "normal"

\* mutant: the policy does not look at the user's type
policyCanReserveAnyType(p, user, currentReservations) ==
    currentReservations < policyMaxReservations(p)

\* mutant: the limit compared with <= instead of <
policyCanReserveOffByOne(p, user, currentReservations) ==
    /\ user.user_type = policyUserType(p)
    /\ currentReservations <= policyMaxReservations(p)

\* policy.canReserve(user, currentReservations)
policyCanReserve(p, user, currentReservations) ==
    /\ user.user_type = policyUserType(p)
    /\ currentReservations < policyMaxReservations(p)

\* the static initializer of ReservationPolicyFactory
DefaultPolicies ==
    [t \in UserTypes |->
        CASE t = "student" -> StudentReservationPolicy
          [] t = "normal"  -> NormalUserReservationPolicy
          [] OTHER         -> NoPolicy]

\* a method's completion: a returned value, or a thrown Error
Return(v) == [throws |-> FALSE, value |-> v]
Throw(msg) == [throws |-> TRUE, value |-> msg]

\* mutant: an absent key resolves to the policy of normal users
getPolicyDefaulting(userType) ==
    LET policy == policies[userType]
    IN  IF policy = NoPolicy THEN Return(NormalUserReservationPolicy) ELSE Return(policy)

\* ReservationPolicyFactory.getPolicy(userType)
getPolicy(userType) ==
    LET policy == policies[userType]
    IN  IF policy = NoPolicy THEN Throw(PolicyError) ELSE Return(policy)

\* mutant: the service counts the rows of the store itself
canUserReserveCounting(user, currentReservations) ==
    LET policy == getPolicy(user.user_type)
    IN  IF policy.throws THEN policy
        ELSE Return(policyCanReserve(policy.value, user, Len(reservations)))

\* ReservationService.canUserReserve(user, currentReservations)
canUserReserve(user, currentReservations) ==
    LET policy == getPolicy(user.user_type)
    IN  IF policy.throws THEN policy
        ELSE Return(policyCanReserve(policy.value, user, currentReservations))

\* mutant: the limit of the normal policy, whatever the user type
getMaxReservationsFixed(userType) ==
    Return(policyMaxReservations(NormalUserReservationPolicy))

\* ReservationService.getMaxReservations(userType)
getMaxReservations(userType) ==
    LET policy == getPolicy(userType)
    IN  IF policy.throws THEN policy ELSE Return(policyMaxReservations(policy.value))

\* ReservationService.getReservationDuration(userType)
getReservationDuration(userType) ==
    LET policy == getPolicy(userType)
    IN  IF policy.throws THEN policy ELSE Return(policyDurationDays(policy.value))

\* Date at the granularity of a day of local time: a time value is the number of days
\* since 1 January Year0; months are numbered 0..11 as in JavaScript.
IsLeap(y) == (y % 4 = 0 /\ y % 100 # 0) \/ y % 400 = 0

DaysInYear(y) == IF IsLeap(y) THEN 366 ELSE 365

DaysInMonth(y, m) ==
    CASE m = 1 -> IF IsLeap(y) THEN 29 ELSE 28
      [] m \in {3, 5, 8, 10} -> 30
      [] OTHER -> 31

RECURSIVE DayFromYear(_)
DayFromYear(y) ==
    IF y <= Year0 THEN 0 ELSE DayFromYear(y - 1) + DaysInYear(y - 1)

RECURSIVE DayFromMonth(_, _)
DayFromMonth(y, m) ==
    IF m = 0 THEN DayFromYear(y) ELSE DayFromMonth(y, m - 1) + DaysInMonth(y, m - 1)

YearFromTime(t) ==
    CHOOSE y \in Year0..(Year0 + 3) : DayFromYear(y) <= t /\ t < DayFromYear(y + 1)

MonthFromTime(t) ==
    LET y == YearFromTime(t)
    IN  CHOOSE m \in 0..11 :
            /\ DayFromMonth(y, m) <= t
            /\ t < DayFromMonth(y, m) + DaysInMonth(y, m)

\* Date.prototype.getDate
DateFromTime(t) == t - DayFromMonth(YearFromTime(t), MonthFromTime(t)) + 1

\* mutant: every month counted as 30 days
MakeDayThirty(y, m, date) == DayFromYear(y) + 30 * m + date - 1

\* MakeDay(year, month, date): a date past the month's end runs into the next months
MakeDay(y, m, date) == DayFromMonth(y, m) + date - 1

\* Date.prototype.setDate
setDate(t, date) == MakeDay(YearFromTime(t), MonthFromTime(t), date)

\* ReservationService.calculateExpirationDate(userType), `now` being what new Date()
\* reads from the clock during the call
calculateExpirationDate(userType, now) ==
    LET duration == getReservationDuration(userType)
    IN  IF duration.throws THEN duration
        ELSE Return(setDate(now, DateFromTime(now) + duration.value))

\* mutant: every bound key is rebound to the policy
registerPolicyForAll(userType, policy) ==
    [u \in UserTypes |->
        IF u = userType \/ policies[u] # NoPolicy THEN policy ELSE policies[u]]

\* mutant: a key that is already bound keeps its policy
registerPolicyIfAbsent(userType, policy) ==
    IF policies[userType] = NoPolicy
    THEN [policies EXCEPT ![userType] = policy]
    ELSE policies

\* ReservationPolicyFactory.registerPolicy(userType, policy): the map after the call
registerPolicy(userType, policy) ==
    [policies EXCEPT ![userType] = policy]

\* a call of the policy service: its arguments, the clock's reading during it, its result
Call(op, userType, count, now, policy, result) ==
    [op |-> op, user_type |-> userType, count |-> count, now |-> now,
     policy |-> policy, result |-> result]

NoCall == Call("none", "", 0, 0, NoPolicy, Return(FALSE))

\* setup code registering a provided policy implementation under a user type
RegisterPolicy ==
    \E t \in UserTypes, p \in PolicyClasses :
        /\ policies' = registerPolicy(t, p)
        /\ lastCall' = Call("registerPolicy", t, 0, 0, p, Return("void"))
        /\ UNCHANGED <<lifecycleVars, auth>>

\* a caller invoking canUserReserve with a user of type t and a count n
CallCanUserReserve ==
    \E t \in UserTypes, n \in 0..MaxCount :
        /\ lastCall' = Call("canUserReserve", t, n, 0, NoPolicy,
                             canUserReserve([user_type |-> t], n))
        /\ UNCHANGED <<policies, lifecycleVars, auth>>

\* a caller invoking getMaxReservations
CallGetMaxReservations ==
    \E t \in UserTypes :
        /\ lastCall' = Call("getMaxReservations", t, 0, 0, NoPolicy,
                             getMaxReservations(t))
        /\ UNCHANGED <<policies, lifecycleVars, auth>>

\* a caller invoking getReservationDuration
CallGetReservationDuration ==
    \E t \in UserTypes :
        /\ lastCall' = Call("getReservationDuration", t, 0, 0, NoPolicy,
                             getReservationDuration(t))
        /\ UNCHANGED <<policies, lifecycleVars, auth>>

\* a caller invoking getPolicy
CallGetPolicy ==
    \E t \in UserTypes :
        /\ lastCall' = Call("getPolicy", t, 0, 0, NoPolicy, getPolicy(t))
        /\ UNCHANGED <<policies, lifecycleVars, auth>>

\* a caller invoking calculateExpirationDate while the clock reads `now`
CallCalculateExpirationDate ==
    \E t \in UserTypes, now \in FirstDay..MaxDay :
        /\ lastCall' = Call("calculateExpirationDate", t, 0, now, NoPolicy,
                             calculateExpirationDate(t, now))
        /\ UNCHANGED <<policies, lifecycleVars, auth>>

----------------------------------------------------------------------------
(* The data store behind the GraphQL endpoint: books and reservations *)

Books == {"b1", "b2"}

\* components/BookCard.tsx: the user every BookCard reserves for
mockUser == [id |-> "user-123", user_type |-> "student"]

\* What the store may answer to a mutation: "ok" (done, record returned), "lost" (done,
\* but the response never arrives and the client's await rejects), "error" (refused,
\* the await rejects), "null" (nothing done, a null record is returned).
Answers == {"ok", "lost", "error", "null"}

Applied(ans) == ans \in {"ok", "lost"}
Rejects(ans) == ans \in {"lost", "error"}

NoRow == [id |-> 0, user_id |-> "", book_id |-> "", status |-> ""]

\* mutant: the query leaves out the reservations that expire before the last day
ActiveReservationsOfUnexpired(userId) ==
    {i \in DOMAIN reservations :
        /\ reservations[i].user_id = userId
        /\ reservations[i].status = "active"
        /\ reservations[i].expires_at >= MaxDay}

\* RESERVATIONS_QUERY: where user_id = $userId and status = "active"
ActiveReservationsOf(userId) ==
    {i \in DOMAIN reservations :
        /\ reservations[i].user_id = userId
        /\ reservations[i].status = "active"}

\* CREATE_RESERVATION_MUTATION: insert_reservations_one; status takes the column default
insertReservation(userId, bookId, expiresAt) ==
    Append(reservations, [user_id |-> userId, book_id |-> bookId,
                          expires_at |-> expiresAt, status |-> "active"])

\* UPDATE_BOOK_AVAILABILITY_MUTATION: update_books_by_pk _set available_copies
updateBooksByPk(bookId, availableCopies) ==
    [books EXCEPT ![bookId].available_copies = availableCopies]

\* mutant: the update matches the owner's rows instead of the primary key
updateReservationsOfOwner(reservationId) ==
    [i \in DOMAIN reservations |->
        IF reservations[i].user_id = reservations[reservationId].user_id
        THEN [reservations[i] EXCEPT !.status = "cancelled"]
        ELSE reservations[i]]

\* CANCEL_RESERVATION_MUTATION: update_reservations_by_pk _set status "cancelled"
updateReservationsByPk(reservationId) ==
    [reservations EXCEPT ![reservationId].status = "cancelled"]

\* the result of RESERVATIONS_QUERY as the Apollo cache keeps it: id -> status
FetchedReservations ==
    [i \in ActiveReservationsOf(mockUser.id) |-> "active"]

NotLoaded == [loaded |-> FALSE, status |-> <<>>]

----------------------------------------------------------------------------
(* components/BookCard.tsx: handleReserve *)

IdleCard ==
    [pc |-> "idle", reserving |-> FALSE, available_copies |-> 0, fromCache |-> FALSE,
     reservationCount |-> 0, countQueries |-> 0, now |-> 0, expiresAt |-> 0,
     creates |-> 0, createAnswer |-> "none",
     created |-> NoRow, updates |-> 0, updateValue |-> 0, updateAnswer |-> "none"]

IdleCancel ==
    [pc |-> "idle", reservationId |-> 0, status |-> "", updates |-> 0,
     answer |-> "none", returned |-> NoRow]

NoAlert ==
    [title |-> "none", source |-> "", book |-> "", max |-> 0,
     exec |-> IdleCard, cancel |-> IdleCancel]

ReserveAlert(title, b, max, exec) ==
    [title |-> title, source |-> "handleReserve", book |-> b, max |-> max,
     exec |-> exec, cancel |-> IdleCancel]

CancelAlert(title, c) ==
    [title |-> title, source |-> "handleCancelReservation", book |-> "", max |-> 0,
     exec |-> IdleCard, cancel |-> c]

\* mutant: the availability check never fires
bookUnavailableNever(available_copies) == FALSE

\* line 34: book.available_copies === 0
bookUnavailable(available_copies) == available_copies = 0

\* mutant: the copy count is passed on without the decrement
newAvailableCopiesSame(available_copies) == available_copies

\* mutant: the copy count is incremented
newAvailableCopiesPlus(available_copies) == available_copies + 1

\* line 63: the value passed to updateBookAvailability
newAvailableCopies(available_copies) == available_copies - 1

\* lines 39-43: setReserving(true); getUserReservations(mockUser.id), a cache-first query
startReserve(available_copies) ==
    [IdleCard EXCEPT !.pc = "awaitCount", !.reserving = TRUE,
                     !.available_copies = available_copies,
                     !.fromCache = cacheRes.loaded,
                     !.reservationCount = IF cacheRes.loaded
                                          THEN Cardinality(DOMAIN cacheRes.status) ELSE 0,
                     !.countQueries = 1]

\* lines 44-60: from the reservation count to the Alert shown, or to createReservation;
\* `now` is the clock's reading when calculateExpirationDate runs
afterCount(b, c, reservationCount, now) ==
    LET exec == [c EXCEPT !.reservationCount = reservationCount]
        can == canUserReserve(mockUser, reservationCount)
        expiresAt == calculateExpirationDate(mockUser.user_type, now)
    IN  IF can.throws
        THEN [card |-> IdleCard, alert |-> ReserveAlert("Error", b, 0, exec)]
        ELSE IF ~can.value
        THEN LET max == getMaxReservations(mockUser.user_type)
             IN  IF max.throws
                 THEN [card |-> IdleCard, alert |-> ReserveAlert("Error", b, 0, exec)]
                 ELSE [card |-> IdleCard,
                       alert |-> ReserveAlert("Reservation Limit Reached", b,
                                              max.value, exec)]
        ELSE IF expiresAt.throws
        THEN [card |-> IdleCard, alert |-> ReserveAlert("Error", b, 0, exec)]
        ELSE [card |-> [exec EXCEPT !.pc = "awaitCreate", !.now = now,
                                    !.expiresAt = expiresAt.value, !.creates = @ + 1],
              alert |-> NoAlert]

\* mutant: a createReservation that failed is sent once more
afterCreateRetrying(b, c, ans, row) ==
    IF ans = "ok"
    THEN [card |-> [c EXCEPT !.pc = "awaitUpdate", !.createAnswer = ans, !.created = row,
                             !.updates = @ + 1,
                             !.updateValue = c.available_copies - 1],
          alert |-> NoAlert]
    ELSE IF c.creates < 2
    THEN [card |-> [c EXCEPT !.creates = @ + 1], alert |-> NoAlert]
    ELSE [card |-> IdleCard,
          alert |-> ReserveAlert("Error", b, 0, [c EXCEPT !.createAnswer = ans])]

\* mutant: the availability update is issued whatever createReservation answered
afterCreateAlwaysUpdate(b, c, ans, row) ==
    [card |-> [c EXCEPT !.pc = "awaitUpdate", !.createAnswer = ans, !.created = row,
                        !.updates = @ + 1,
                        !.updateValue = c.available_copies - 1],
     alert |-> NoAlert]

\* lines 60-63 and 69-74: after createReservation settles
afterCreate(b, c, ans, row) ==
    LET exec == [c EXCEPT !.createAnswer = ans]
    IN  IF ans = "ok"
        THEN [card |-> [exec EXCEPT !.pc = "awaitUpdate", !.created = row,
                                    !.updates = @ + 1,
                                    !.updateValue = newAvailableCopies(c.available_copies)],
              alert |-> NoAlert]
        ELSE [card |-> IdleCard, alert |-> ReserveAlert("Error", b, 0, exec)]

\* lines 63-74: after updateBookAvailability settles
afterUpdate(b, c, ans) ==
    LET exec == [c EXCEPT !.updateAnswer = ans]
    IN  IF Rejects(ans)
        THEN [card |-> IdleCard, alert |-> ReserveAlert("Error", b, 0, exec)]
        ELSE [card |-> IdleCard, alert |-> ReserveAlert("Success!", b, 0, exec)]

\* mutant: the button stays enabled while the card is reserving
HandleReserveUnguarded(b) ==
    /\ LET available_copies == cacheBooks[b]
       IN  IF bookUnavailable(available_copies)
           THEN /\ alert' = ReserveAlert("Not Available", b, 0,
                               [IdleCard EXCEPT !.available_copies = available_copies])
                /\ UNCHANGED card
           ELSE /\ card' = [card EXCEPT ![b] = startReserve(available_copies)]
                /\ alert' = NoAlert
    /\ UNCHANGED <<auth, policies, lastCall, storeVars, cacheVars, cancelVars>>

\* mutant: a reserve starts only while no other card is reserving
HandleReserveExclusive(b) ==
    /\ \A c \in Books : ~card[c].reserving
    /\ LET available_copies == cacheBooks[b]
       IN  IF bookUnavailable(available_copies)
           THEN /\ alert' = ReserveAlert("Not Available", b, 0,
                               [IdleCard EXCEPT !.available_copies = available_copies])
                /\ UNCHANGED card
           ELSE /\ card' = [card EXCEPT ![b] = startReserve(available_copies)]
                /\ alert' = NoAlert
    /\ UNCHANGED <<auth, policies, lastCall, storeVars, cacheVars, cancelVars>>

\* the user presses Reserve on the card of book b
HandleReserve(b) ==
    /\ ~card[b].reserving
    /\ LET available_copies == cacheBooks[b]
       IN  IF bookUnavailable(available_copies)
           THEN /\ alert' = ReserveAlert("Not Available", b, 0,
                               [IdleCard EXCEPT !.available_copies = available_copies])
                /\ UNCHANGED card
           ELSE /\ card' = [card EXCEPT ![b] = startReserve(available_copies)]
                /\ alert' = NoAlert
    /\ UNCHANGED <<auth, policies, lastCall, storeVars, cacheVars, cancelVars>>

\* getUserReservations settles: from the cache, or from the store (lines 219-231)
GetUserReservationsResponse(b, instants) ==
    /\ card[b].pc = "awaitCount"
    /\ \/ /\ card[b].fromCache
          /\ \E now \in instants :
                LET next == afterCount(b, card[b], card[b].reservationCount, now)
                IN  /\ card' = [card EXCEPT ![b] = next.card]
                    /\ alert' = next.alert
          /\ UNCHANGED cacheRes
       \/ /\ ~card[b].fromCache
          /\ \E now \in instants :
                LET next == afterCount(b, card[b],
                                       Cardinality(ActiveReservationsOf(mockUser.id)), now)
                IN  /\ card' = [card EXCEPT ![b] = next.card]
                    /\ alert' = next.alert
          /\ cacheRes' = [loaded |-> TRUE, status |-> FetchedReservations]
       \/ /\ ~card[b].fromCache
          /\ card' = [card EXCEPT ![b] = IdleCard]
          /\ alert' = ReserveAlert("Error", b, 0, card[b])
          /\ UNCHANGED cacheRes
    /\ UNCHANGED <<auth, policies, lastCall, storeVars, cacheBooks, cancelVars>>

\* createReservation settles (lines 295-346)
CreateReservationResponse(b, capacity) ==
    /\ card[b].pc = "awaitCreate"
    /\ \E ans \in Answers :
        /\ Applied(ans) => Len(reservations) < capacity
        /\ reservations' = IF Applied(ans)
                           THEN insertReservation(mockUser.id, b, card[b].expiresAt)
                           ELSE reservations
        /\ LET id == Len(reservations) + 1
               row == [id |-> id, user_id |-> reservations'[id].user_id,
                       book_id |-> reservations'[id].book_id,
                       status |-> reservations'[id].status]
               next == afterCreate(b, card[b], ans, IF ans = "ok" THEN row ELSE NoRow)
           IN  /\ card' = [card EXCEPT ![b] = next.card]
               /\ alert' = next.alert
    /\ UNCHANGED <<auth, policies, lastCall, books, cacheVars, cancelVars>>

\* updateBookAvailability settles (lines 354-366)
UpdateBookAvailabilityResponse(b) ==
    /\ card[b].pc = "awaitUpdate"
    /\ \E ans \in Answers :
        /\ books' = IF Applied(ans)
                    THEN updateBooksByPk(b, card[b].updateValue) ELSE books
        /\ cacheBooks' = IF ans = "ok"
                         THEN [cacheBooks EXCEPT ![b] = books'[b].available_copies]
                         ELSE cacheBooks
        /\ LET next == afterUpdate(b, card[b], ans)
           IN  /\ card' = [card EXCEPT ![b] = next.card]
               /\ alert' = next.alert
    /\ UNCHANGED <<auth, policies, lastCall, reservations, cacheRes, cancelVars>>

\* BOOKS_QUERY is fetched again (refetchQueries of a mutation, pull to refresh)
RefetchBooks ==
    /\ cacheBooks' = [b \in Books |-> books[b].available_copies]
    /\ cacheBooks' # cacheBooks
    /\ alert' = NoAlert
    /\ UNCHANGED <<auth, policies, lastCall, storeVars, cacheRes, card, cancelVars>>

\* RESERVATIONS_QUERY is fetched again (refetchQueries of createReservation, useQuery
\* on mount, pull to refresh)
RefetchReservations ==
    /\ cacheRes' = [loaded |-> TRUE, status |-> FetchedReservations]
    /\ cacheRes' # cacheRes
    /\ alert' = NoAlert
    /\ UNCHANGED <<auth, policies, lastCall, storeVars, cacheBooks, card, cancelVars>>

----------------------------------------------------------------------------
(* app/(tabs)/reservations.tsx: handleCancelReservation *)

\* the running executions of handleCancelReservation that are at position pc
Running(pc) == {c \in BagToSet(cancelOp) : c.pc = pc}

\* execution c moves on as execution d
Replace(c, d) == (cancelOp (-) SetToBag({c})) (+) SetToBag({d})

\* execution c ends
Remove(c) == cancelOp (-) SetToBag({c})

\* mutant: the status check never fires
notCancellableNever(status) == FALSE

\* line 246: reservation.status !== 'active'
notCancellable(status) == status # "active"

\* lines 237-256: the checks before the confirmation dialog
cancelCheck(reservationId) ==
    IF ~cacheRes.loaded \/ reservationId \notin DOMAIN cacheRes.status
    THEN [go |-> FALSE, alert |-> CancelAlert("Error",
              [IdleCancel EXCEPT !.reservationId = reservationId])]
    ELSE IF notCancellable(cacheRes.status[reservationId])
    THEN [go |-> FALSE, alert |-> CancelAlert("Cannot Cancel",
              [IdleCancel EXCEPT !.reservationId = reservationId,
                                 !.status = cacheRes.status[reservationId]])]
    ELSE [go |-> TRUE, alert |-> CancelAlert("Cancel Reservation",
              [IdleCancel EXCEPT !.reservationId = reservationId,
                                 !.status = cacheRes.status[reservationId]])]

\* lines 266-281: after cancelReservation settles
afterCancel(c, ans) ==
    LET exec == [c EXCEPT !.answer = ans,
                          !.returned = IF ans = "ok"
                                       THEN [NoRow EXCEPT !.id = c.reservationId,
                                                          !.status = "cancelled"]
                                       ELSE NoRow]
    IN  IF Rejects(ans)
        THEN [op |-> IdleCancel, alert |-> CancelAlert("Error", exec), done |-> TRUE]
        ELSE [op |-> [exec EXCEPT !.pc = "awaitRefetch"],
              alert |-> CancelAlert("Success", exec), done |-> FALSE]

\* the user presses Cancel Reservation on reservation r of the list
HandleCancelReservation(r, maxOps) ==
    /\ cancellingReservation # r
    /\ BagCardinality(cancelOp) < maxOps
    /\ LET check == cancelCheck(r)
       IN  /\ alert' = check.alert
           /\ cancelOp' = IF check.go
                          THEN cancelOp (+)
                               SetToBag({[check.alert.cancel EXCEPT !.pc = "confirm"]})
                          ELSE cancelOp
    /\ UNCHANGED <<auth, policies, lastCall, storeVars, cacheVars, card, cancellingReservation>>

\* the user answers the confirmation dialog (lines 257-266)
ConfirmCancel ==
    \E c \in Running("confirm") :
        /\ \/ /\ cancelOp' = Remove(c)
              /\ UNCHANGED cancellingReservation
           \/ /\ cancellingReservation' = c.reservationId
              /\ cancelOp' = Replace(c, [c EXCEPT !.pc = "awaitCancel", !.updates = @ + 1])
        /\ alert' = NoAlert
        /\ UNCHANGED <<auth, policies, lastCall, storeVars, cacheVars, card>>

\* mutant: a cancel that reached the store gives the copy back to the book
CancelReservationRestoring ==
    \E c \in Running("awaitCancel"), ans \in Answers :
        LET r == c.reservationId
            b == reservations[r].book_id
            next == afterCancel(c, ans)
        IN  /\ reservations' = IF Applied(ans)
                               THEN updateReservationsByPk(r) ELSE reservations
            /\ books' = IF Applied(ans)
                        THEN updateBooksByPk(b, books[b].available_copies + 1) ELSE books
            /\ cacheRes' = IF ans = "ok" /\ r \in DOMAIN cacheRes.status
                           THEN [cacheRes EXCEPT !.status[r] = reservations'[r].status]
                           ELSE cacheRes
            /\ cancelOp' = IF next.done THEN Remove(c) ELSE Replace(c, next.op)
            /\ alert' = next.alert
            /\ cancellingReservation' = IF next.done THEN 0 ELSE cancellingReservation
            /\ UNCHANGED <<auth, policies, lastCall, cacheBooks, card>>

\* cancelReservation settles (lines 373-385)
CancelReservationResponse ==
    \E c \in Running("awaitCancel"), ans \in Answers :
        LET r == c.reservationId
            next == afterCancel(c, ans)
        IN  /\ reservations' = IF Applied(ans)
                               THEN updateReservationsByPk(r) ELSE reservations
            /\ cacheRes' = IF ans = "ok" /\ r \in DOMAIN cacheRes.status
                           THEN [cacheRes EXCEPT !.status[r] = reservations'[r].status]
                           ELSE cacheRes
            /\ cancelOp' = IF next.done THEN Remove(c) ELSE Replace(c, next.op)
            /\ alert' = next.alert
            /\ cancellingReservation' = IF next.done THEN 0 ELSE cancellingReservation
            /\ UNCHANGED <<auth, policies, lastCall, books, cacheBooks, card>>

\* refetch() settles (lines 272-281)
RefetchResponse ==
    \E c \in Running("awaitRefetch") :
        /\ \/ /\ cacheRes' = [loaded |-> TRUE, status |-> FetchedReservations]
              /\ alert' = NoAlert
           \/ /\ UNCHANGED cacheRes
              /\ alert' = CancelAlert("Error", c)
        /\ cancelOp' = Remove(c)
        /\ cancellingReservation' = 0
        /\ UNCHANGED <<auth, policies, lastCall, storeVars, cacheBooks, card>>

----------------------------------------------------------------------------
(* The external process that completes reservations (book return) *)

ExternalComplete(r) ==
    /\ reservations[r].status = "active"
    /\ reservations' = [reservations EXCEPT ![r].status = "completed"]
    /\ alert' = NoAlert
    /\ UNCHANGED <<auth, policies, lastCall, books, cacheVars, card, cancelVars>>

----------------------------------------------------------------------------
(* Authentication: services/auth-service.ts, AuthProvider, the root layout *)

NoUser == "null"                 \* a null User
NoError == "null"                \* a null error message
Users == {mockUser.id, "user-456"}

SESSION_KEYS == {"user_id", "user_data", "is_authenticated"}

\* AsyncStorage without a session
EmptySession == [user_id |-> NoUser, user_data |-> NoUser, is_authenticated |-> FALSE]

\* AsyncStorage.multiSet of the three session entries of `user`; `written` are the
\* keys that reached the storage (all of them unless the call rejects)
multiSet(session, user, written) ==
    [user_id |-> IF "user_id" \in written THEN user ELSE session.user_id,
     user_data |-> IF "user_data" \in written THEN user ELSE session.user_data,
     is_authenticated |-> ("is_authenticated" \in written) \/ session.is_authenticated]

\* AsyncStorage.multiRemove of the three session keys; `removed` are the keys that
\* were deleted (all of them unless the call rejects)
multiRemove(session, removed) ==
    [user_id |-> IF "user_id" \in removed THEN NoUser ELSE session.user_id,
     user_data |-> IF "user_data" \in removed THEN NoUser ELSE session.user_data,
     is_authenticated |-> ("is_authenticated" \notin removed) /\ session.is_authenticated]

Success(user) == [success |-> TRUE, user |-> user, error |-> NoError]
Failure(error) == [success |-> FALSE, user |-> NoUser, error |-> error]

storeUserSession(session, user, written) ==
    [session |-> multiSet(session, user, written), throws |-> written # SESSION_KEYS]

\* what LOGIN_USER_QUERY may answer: the query rejects, no user matches, or a user
QueryAnswers == {"error", "empty"} \cup Users

\* loginUser assigning currentUser before the session is stored
loginUserEager(currentUser, session, valid, found, written) ==
    IF ~valid \/ found \notin Users
    THEN [response |-> Failure(IF found = "error" /\ valid
                               THEN "Login failed. Please try again."
                               ELSE "Invalid email or password"),
          currentUser |-> currentUser, session |-> session]
    ELSE LET stored == storeUserSession(session, found, written) IN
         [response |-> IF stored.throws THEN Failure("Login failed. Please try again.")
                       ELSE Success(found),
          currentUser |-> found, session |-> stored.session]

\* AuthService.loginUser: the response, and the service's state after the call
loginUser(currentUser, session, valid, found, written) ==
    IF ~valid
    THEN [response |-> Failure("Invalid email or password"),
          currentUser |-> currentUser, session |-> session]
    ELSE IF found = "error"
    THEN [response |-> Failure("Login failed. Please try again."),
          currentUser |-> currentUser, session |-> session]
    ELSE IF found = "empty"
    THEN [response |-> Failure("Invalid email or password"),
          currentUser |-> currentUser, session |-> session]
    ELSE LET stored == storeUserSession(session, found, written) IN
         IF stored.throws
         THEN [response |-> Failure("Login failed. Please try again."),
               currentUser |-> currentUser, session |-> stored.session]
         ELSE [response |-> Success(found),
               currentUser |-> found, session |-> stored.session]

\* the outcome of registerUser's validations: "valid", or the error of the first
\* validation that fails
RegisterChecks == {"valid", "Invalid email format",
                   "Password must be at least 6 characters",
                   "Name must be at least 2 characters"}

\* what CREATE_USER_MUTATION may answer: the user, a null record, or a rejection whose
\* message holds 'duplicate key', holds 'violates', or holds neither
CreateAnswers == {"ok", "null", "duplicate key", "violates", "error"}

\* AuthService.registerUser
registerUser(currentUser, session, check, created, found, written) ==
    IF check # "valid"
    THEN [response |-> Failure(check), currentUser |-> currentUser, session |-> session]
    ELSE IF created = "null"
    THEN [response |-> Failure("Failed to create user"),
          currentUser |-> currentUser, session |-> session]
    ELSE IF created = "duplicate key"
    THEN [response |-> Failure("Email already exists"),
          currentUser |-> currentUser, session |-> session]
    ELSE IF created = "violates"
    THEN [response |-> Failure("Invalid user type"),
          currentUser |-> currentUser, session |-> session]
    ELSE IF created = "error"
    THEN [response |-> Failure("Registration failed. Please try again."),
          currentUser |-> currentUser, session |-> session]
    ELSE loginUser(currentUser, session, TRUE, found, written)

\* AuthService.logoutUser: `reset` tells whether apolloClient.resetStore resolves
logoutUser(currentUser, session, removed, reset) ==
    IF removed # SESSION_KEYS
    THEN [value |-> FALSE, currentUser |-> currentUser,
          session |-> multiRemove(session, removed)]
    ELSE [value |-> reset, currentUser |-> NoUser,
          session |-> multiRemove(session, removed)]

\* AuthService.isAuthenticated: `read` tells whether AsyncStorage.getItem resolves
isAuthenticated(session, read) == read /\ session.is_authenticated

\* restoreSession looking at the stored user data only
restoreSessionDataOnly(currentUser, session, read) ==
    IF read /\ session.user_data # NoUser
    THEN [value |-> TRUE, currentUser |-> session.user_data]
    ELSE [value |-> FALSE, currentUser |-> currentUser]

\* AuthService.restoreSession
restoreSession(currentUser, session, read) ==
    IF read /\ session.user_id # NoUser /\ session.user_data # NoUser
    THEN [value |-> TRUE, currentUser |-> session.user_data]
    ELSE [value |-> FALSE, currentUser |-> currentUser]

\* AuthService.getCurrentUser
getCurrentUser(a) == a.currentUser

\* no operation of the auth context finished in the last step
NoOutcome == [op |-> "none", success |-> FALSE, loginUser |-> FALSE,
              valid |-> FALSE, found |-> "empty", written |-> {},
              user |-> NoUser, currentUser |-> NoUser]

\* the operation finished in the last step: its name, its result, whether it called
\* loginUser and with which answers, and the context's user and the service's
\* currentUser from before it
Outcome(a, op, success, called, valid, found, written) ==
    [op |-> op, success |-> success, loginUser |-> called,
     valid |-> valid, found |-> found, written |-> written,
     user |-> a.user, currentUser |-> a.currentUser]

\* AuthProvider when it mounts over the persisted `session`: the useState initial
\* values, a new AuthService, and the mount effect's checkAuthStatus running
Mounted(session) ==
    [user |-> NoUser, isLoading |-> TRUE, error |-> NoError,
     currentUser |-> NoUser, session |-> session,
     op |-> "checkAuthStatus", last |-> NoOutcome]

\* the state in which the book cards and the reservations screen are used:
\* mockUser is signed in and no operation runs
SignedIn ==
    [user |-> mockUser.id, isLoading |-> FALSE, error |-> NoError,
     currentUser |-> mockUser.id,
     session |-> multiSet(EmptySession, mockUser.id, SESSION_KEYS),
     op |-> "none", last |-> NoOutcome]

\* the context value's isAuthenticated: !!user
contextIsAuthenticated(a) == a.user # NoUser

\* what AppContent renders
AppContent(a) ==
    IF a.isLoading THEN "null"
    ELSE IF ~contextIsAuthenticated(a) THEN "AuthNavigator"
    ELSE "(tabs)"

\* the part of checkAuthStatus after setIsLoading(true)
CheckAuthStatus ==
    /\ auth.op = "checkAuthStatus"
    /\ \E readFlag, readData \in BOOLEAN :
        LET isAuth == isAuthenticated(auth.session, readFlag)
            restored == restoreSession(auth.currentUser, auth.session, readData)
            sessionRestored == isAuth /\ restored.value
            service == IF isAuth THEN restored.currentUser ELSE auth.currentUser
        IN auth' = [auth EXCEPT
                      !.user = IF sessionRestored THEN service ELSE @,
                      !.currentUser = service,
                      !.isLoading = FALSE,
                      !.op = "none",
                      !.last = Outcome(auth, "checkAuthStatus", sessionRestored,
                                       FALSE, FALSE, "empty", {})]
    /\ UNCHANGED <<policies, lastCall, lifecycleVars>>

\* a sign-in screen calls login or register, or a screen calls logout: the part of
\* the operation before its await
StartOperation(op) ==
    /\ auth.op = "none"
    /\ op \in {"login", "register"} => AppContent(auth) = "AuthNavigator"
    /\ auth' = [auth EXCEPT !.error = IF op = "logout" THEN @ ELSE NoError,
                            !.isLoading = TRUE,
                            !.op = op,
                            !.last = NoOutcome]
    /\ UNCHANGED <<policies, lastCall, lifecycleVars>>

\* the rest of login or register, given the service's response
afterResponse(a, op, r, called, valid, found, written) ==
    [a EXCEPT !.user = IF r.response.success /\ r.response.user # NoUser
                       THEN r.response.user ELSE @,
              !.error = IF r.response.success /\ r.response.user # NoUser THEN @
                        ELSE r.response.error,
              !.currentUser = r.currentUser,
              !.session = r.session,
              !.isLoading = FALSE,
              !.op = "none",
              !.last = Outcome(a, op, r.response.success, called, valid, found, written)]

Login ==
    /\ auth.op = "login"
    /\ \E valid \in BOOLEAN, found \in QueryAnswers, written \in SUBSET SESSION_KEYS :
        auth' = afterResponse(auth, "login",
                    loginUser(auth.currentUser, auth.session, valid, found, written),
                    TRUE, valid, found, written)
    /\ UNCHANGED <<policies, lastCall, lifecycleVars>>

Register ==
    /\ auth.op = "register"
    /\ \E check \in RegisterChecks, created \in CreateAnswers,
          found \in QueryAnswers, written \in SUBSET SESSION_KEYS :
        auth' = afterResponse(auth, "register",
                    registerUser(auth.currentUser, auth.session, check, created,
                                 found, written),
                    check = "valid" /\ created = "ok", TRUE, found, written)
    /\ UNCHANGED <<policies, lastCall, lifecycleVars>>

Logout ==
    /\ auth.op = "logout"
    /\ \E removed \in SUBSET SESSION_KEYS, reset \in BOOLEAN :
        LET r == logoutUser(auth.currentUser, auth.session, removed, reset)
        IN auth' = [auth EXCEPT
                      !.user = NoUser,
                      !.currentUser = r.currentUser,
                      !.session = r.session,
                      !.isLoading = FALSE,
                      !.op = "none",
                      !.last = Outcome(auth, "logout", r.value, FALSE, FALSE, "empty", {})]
    /\ UNCHANGED <<policies, lastCall, lifecycleVars>>

ClearError ==
    /\ auth' = [auth EXCEPT !.error = NoError, !.last = NoOutcome]
    /\ UNCHANGED <<policies, lastCall, lifecycleVars>>

\* the app is closed and opened again: the persisted session is all that is kept
Restart ==
    /\ auth' = Mounted(auth.session)
    /\ UNCHANGED <<policies, lastCall, lifecycleVars>>

----------------------------------------------------------------------------
(* Specifications *)

PolicyInit ==
    /\ policies = DefaultPolicies
    /\ lastCall = NoCall
    /\ books = [b \in Books |-> [total_copies |-> MaxCopies, available_copies |-> MaxCopies]]
    /\ reservations = <<>>
    /\ cacheBooks = [b \in Books |-> books[b].available_copies]
    /\ cacheRes = NotLoaded
    /\ card = [b \in Books |-> IdleCard]
    /\ cancellingReservation = 0
    /\ cancelOp = EmptyBag
    /\ alert = NoAlert
    /\ auth = SignedIn

PolicyNext ==
    \/ RegisterPolicy
    \/ CallCanUserReserve
    \/ CallGetMaxReservations
    \/ CallGetReservationDuration
    \/ CallGetPolicy
    \/ CallCalculateExpirationDate

\* the policy registry and the read-only ReservationService methods
SpecPolicy == PolicyInit /\ [][PolicyNext]_vars

\* the registry after setup: the defaults, the entry of the card's user type possibly
\* overridden with another provided policy
SetupPolicies ==
    {[DefaultPolicies EXCEPT ![mockUser.user_type] = p] : p \in PolicyClasses}

\* n active reservations of the user, on the first book, expiring on the first day
ExistingReservations(n) ==
    [i \in 1..n |-> [user_id |-> mockUser.id, book_id |-> "b1",
                     expires_at |-> FirstDay, status |-> "active"]]

ClientInit ==
    /\ lastCall = NoCall
    /\ cacheBooks = [b \in Books |-> books[b].available_copies]
    /\ cacheRes = NotLoaded
    /\ card = [b \in Books |-> IdleCard]
    /\ cancellingReservation = 0
    /\ cancelOp = EmptyBag
    /\ alert = NoAlert
    /\ auth = SignedIn

\* every book holds `total` copies; the first book may have some of them out
BooksInit(total) ==
    \E a \in 0..total :
        books = [b \in Books |->
                    [total_copies |-> total,
                     available_copies |-> IF b = "b1" THEN a ELSE total]]

\* the reserve workflow on the cards of the books `shown`
ReserveActions(shown, capacity, instants) ==
    \/ \E b \in shown : HandleReserve(b)
    \/ \E b \in shown : GetUserReservationsResponse(b, instants)
    \/ \E b \in shown : CreateReservationResponse(b, capacity)
    \/ \E b \in shown : UpdateBookAvailabilityResponse(b)
    \/ RefetchBooks
    \/ RefetchReservations

CancelActions(maxOps) ==
    \/ \E r \in DOMAIN reservations : HandleCancelReservation(r, maxOps)
    \/ ConfirmCancel
    \/ CancelReservationResponse
    \/ RefetchResponse
    \/ \E r \in DOMAIN reservations : ExternalComplete(r)
    \/ RefetchReservations

\* the reserve workflow, for a user who holds one reservation less than a student may
ReserveInit ==
    /\ policies \in SetupPolicies
    /\ BooksInit(MaxCopies)
    /\ reservations =
           ExistingReservations(policyMaxReservations(StudentReservationPolicy) - 1)
    /\ ClientInit

\* the clock reads the last day, on which the existing reservations are past their expiry
ReserveNext == ReserveActions(Books, MaxRes, {MaxDay})

SpecReserve == ReserveInit /\ [][ReserveNext]_vars

\* the reserve workflow with one reserve at a time, each given the store's current count
\* of the user's active reservations
OneAtATime ==
    (\E b \in Books : ~card[b].reserving /\ card'[b].reserving)
        => \A b \in Books : ~card[b].reserving

CurrentCount ==
    \A b \in Books :
        (card[b].pc = "awaitCount" /\ card'[b].pc # "awaitCount" /\ card[b].fromCache)
            => card[b].reservationCount = Cardinality(ActiveReservationsOf(mockUser.id))

SequentialInit ==
    /\ policies = DefaultPolicies
    /\ BooksInit(MaxCopies)
    /\ reservations =
           ExistingReservations(policyMaxReservations(StudentReservationPolicy) - 1)
    /\ ClientInit

SequentialNext == ReserveNext /\ OneAtATime /\ CurrentCount

SpecSequential == SequentialInit /\ [][SequentialNext]_vars

\* the reserve workflow from a store in which no copy is out and nothing is reserved
AvailabilityInit ==
    /\ policies = DefaultPolicies
    /\ books = [b \in Books |-> [total_copies |-> MaxCopies,
                                 available_copies |-> MaxCopies]]
    /\ reservations = <<>>
    /\ ClientInit

AvailabilityNext == ReserveActions(Books, MaxRows, {FirstDay})

SpecAvailability == AvailabilityInit /\ [][AvailabilityNext]_vars

\* the cancel workflow and the external completion, on InitRows reservations
CancelInit ==
    /\ policies = DefaultPolicies
    /\ books = [b \in Books |-> [total_copies |-> MaxCopies,
                                 available_copies |-> MaxCopies]]
    /\ reservations = ExistingReservations(InitRows)
    /\ ClientInit

CancelNext == CancelActions(MaxCancelOps)

SpecCancel == CancelInit /\ [][CancelNext]_vars

\* both workflows interleaved, from an empty reservations table
Init ==
    /\ policies = DefaultPolicies
    /\ BooksInit(SpecCopies)
    /\ reservations = <<>>
    /\ ClientInit

Next ==
    \/ ReserveActions({"b1"}, MaxRows, {FirstDay})
    \/ CancelActions(SpecCancelOps)

Spec == Init /\ [][Next]_vars

AuthInit ==
    /\ policies = DefaultPolicies
    /\ lastCall = NoCall
    /\ books = [b \in Books |-> [total_copies |-> MaxCopies, available_copies |-> MaxCopies]]
    /\ reservations = <<>>
    /\ cacheBooks = [b \in Books |-> books[b].available_copies]
    /\ cacheRes = NotLoaded
    /\ card = [b \in Books |-> IdleCard]
    /\ cancellingReservation = 0
    /\ cancelOp = EmptyBag
    /\ alert = NoAlert
    /\ auth = Mounted(EmptySession)

AuthNext ==
    \/ CheckAuthStatus
    \/ \E op \in {"login", "register", "logout"} : StartOperation(op)
    \/ Login
    \/ Register
    \/ Logout
    \/ ClearError
    \/ Restart

\* the authentication context, the authentication service and the persisted session
SpecAuth == AuthInit /\ [][AuthNext]_vars

----------------------------------------------------------------------------
(* Claims *)

ReserveAlerted == alert.source = "handleReserve"
CancelAlerted == alert.source = "handleCancelReservation"

\* the policy registered for the user every card reserves for
MockPolicy == policies[mockUser.user_type]

C2_BookUnavailable ==
    /\ \A b \in Books : card[b].pc # "idle" => card[b].available_copies # 0
    /\ (ReserveAlerted /\ alert.exec.available_copies = 0)
          => /\ alert.title = "Not Available"
             /\ alert.exec.countQueries = 0
             /\ alert.exec.creates = 0
             /\ alert.exec.updates = 0
             /\ ~card[alert.book].reserving

\* BookUnavailable is reported to a user who is eligible under the policy
C2_Witness ==
    /\ alert.title = "Not Available"
    /\ alert.exec.available_copies = 0
    /\ MockPolicy = StudentReservationPolicy
    /\ Cardinality(ActiveReservationsOf(mockUser.id))
           < policyMaxReservations(StudentReservationPolicy)

\* C3: a reserve whose supplied count is not below the policy maximum ends with the
\* "Reservation Limit Reached" alert carrying that maximum and issues neither a
\* create-reservation nor an availability update; under the policy written for the
\* user's type a count below the maximum is not refused.
C3_LimitExceeded ==
    /\ \A b \in Books :
          card[b].pc \in {"awaitCreate", "awaitUpdate"}
              => card[b].reservationCount < policyMaxReservations(MockPolicy)
    /\ (ReserveAlerted /\ alert.exec.creates > 0)
          => alert.exec.reservationCount < policyMaxReservations(MockPolicy)
    /\ alert.title = "Reservation Limit Reached"
          => /\ alert.max = policyMaxReservations(MockPolicy)
             /\ alert.exec.creates = 0
             /\ alert.exec.updates = 0
             /\ policyUserType(MockPolicy) = mockUser.user_type
                   => alert.exec.reservationCount >= policyMaxReservations(MockPolicy)

\* the student with five active reservations is refused with max = 5
C3_Witness ==
    /\ alert.title = "Reservation Limit Reached"
    /\ MockPolicy = StudentReservationPolicy
    /\ alert.exec.reservationCount = 5
    /\ alert.max = 5

\* C4: a cancel of a reservation whose fetched status is not active ends with the
\* "Cannot Cancel" alert (InvalidStateTransition) and issues no status update: every
\* execution that goes on to the store was started on a status fetched as active.
C4_InvalidStateTransition ==
    /\ \A c \in BagToSet(cancelOp) : c.status = "active"
    /\ (CancelAlerted /\ alert.cancel.updates > 0) => alert.cancel.status = "active"
    /\ (CancelAlerted /\ alert.cancel.status \notin {"", "active"})
          => /\ alert.title = "Cannot Cancel"
             /\ alert.cancel.updates = 0

\* a cancel is refused on a reservation the cache holds as cancelled
C4_Witness ==
    /\ alert.title = "Cannot Cancel"
    /\ alert.cancel.status = "cancelled"
    /\ alert.cancel.updates = 0

\* the step in which cancelReservation settled with the store's record
CancelSucceeded ==
    /\ alert'.source = "handleCancelReservation"
    /\ alert'.cancel.pc = "awaitCancel"
    /\ alert'.cancel.answer = "ok"

\* C5: a cancel whose store update succeeds leaves that reservation cancelled in the
\* store, changes no other reservation, and returns the updated reservation.
C5_CancelEffect ==
    [][CancelSucceeded =>
          LET r == alert'.cancel.reservationId
          IN  /\ reservations' = [reservations EXCEPT ![r].status = "cancelled"]
              /\ alert'.title = "Success"
              /\ alert'.cancel.returned.id = r
              /\ alert'.cancel.returned.status = "cancelled"]_vars

\* a cancel has succeeded on one reservation while another one is still active
C5_Witness ==
    /\ CancelAlerted
    /\ alert.title = "Success"
    /\ alert.cancel.answer = "ok"
    /\ reservations[alert.cancel.reservationId].status = "cancelled"
    /\ \E i \in DOMAIN reservations : reservations[i].status = "active"

\* C6: a reserve that ends with the success alert has issued one create-reservation,
\* which returned a reservation in status active for the card's user and book, and one
\* availability update whose value is the supplied available_copies minus 1.
C6_SuccessfulReserve ==
    alert.title = "Success!"
        => LET e == alert.exec
           IN  /\ e.creates = 1
               /\ e.createAnswer = "ok"
               /\ e.created.id \in DOMAIN reservations
               /\ e.created.status = "active"
               /\ e.created.user_id = mockUser.id
               /\ e.created.book_id = alert.book
               /\ reservations[e.created.id].user_id = mockUser.id
               /\ reservations[e.created.id].book_id = alert.book
               /\ e.updates = 1
               /\ e.updateValue = e.available_copies - 1

\* a reserve has succeeded and the store holds the decremented value
C6_Witness ==
    /\ alert.title = "Success!"
    /\ alert.exec.updateAnswer = "ok"
    /\ alert.exec.available_copies = 2
    /\ books[alert.book].available_copies = 1

\* C7: the availability update is issued if and only if the create-reservation of the
\* same execution has settled successfully, and never while it is still in flight.
C7_UpdateAfterCreate ==
    /\ \A b \in Books :
          /\ card[b].pc = "awaitCreate"
                => card[b].updates = 0 /\ card[b].createAnswer = "none"
          /\ card[b].pc = "awaitUpdate"
                => card[b].updates = 1 /\ card[b].createAnswer = "ok"
          /\ card[b].pc \in {"idle", "awaitCount"}
                => card[b].updates = 0 /\ card[b].creates = 0
    /\ ReserveAlerted
          => (alert.exec.updates = 1) = (alert.exec.createAnswer = "ok")

\* an availability update is in flight after its create-reservation succeeded
C7_Witness ==
    \E b \in Books :
        /\ card[b].pc = "awaitUpdate"
        /\ card[b].createAnswer = "ok"
        /\ card[b].created.id \in DOMAIN reservations

\* C8 as stated: when the availability update fails after the create-reservation
\* succeeded, the alert is not the one shown for a failure before any mutation.
C8_PartialSuccessReported ==
    (/\ ReserveAlerted
     /\ alert.exec.createAnswer = "ok"
     /\ Rejects(alert.exec.updateAnswer))
        => alert.title # "Error"

C10_TerminalStatusImmutable ==
    [][\A r \in DOMAIN reservations :
          reservations[r].status \in {"cancelled", "completed"}
              => reservations'[r].status = reservations[r].status]_vars

PolicyReads ==
    {"getPolicy", "canUserReserve", "getMaxReservations", "getReservationDuration",
     "calculateExpirationDate"}

\* C11: getPolicy, canUserReserve, getMaxReservations, getReservationDuration and
\* calculateExpirationDate called with a user type that has no registered policy throw
\* the "No policy found" error and return no value; the user type the cards reserve for
\* is never without a policy, so no reserve goes on to a store mutation after this error.
C11_UnknownClassification ==
    /\ (lastCall.op \in PolicyReads /\ policies[lastCall.user_type] = NoPolicy)
          => /\ lastCall.result.throws
             /\ lastCall.result.value = PolicyError
    /\ policies[mockUser.user_type] # NoPolicy

\* the expiration date is asked for a user type that was never registered
C11_Witness ==
    /\ lastCall.op = "calculateExpirationDate"
    /\ lastCall.user_type = "vip"
    /\ policies["vip"] = NoPolicy
    /\ lastCall.result.throws

\* C12: a registerPolicy call binds its user type to its policy and leaves every other
\* entry as it was, so that getPolicy, getMaxReservations and getReservationDuration
\* answer with the policy registered last and its values; no other call changes the
\* registry, which holds one policy per user type.
C12_LastRegisteredWins ==
    [][/\ \A t \in UserTypes, p \in PolicyClasses :
            (/\ lastCall'.op = "registerPolicy"
             /\ lastCall'.user_type = t
             /\ lastCall'.policy = p)
                => /\ \A u \in UserTypes :
                         policies'[u] = IF u = t THEN p ELSE policies[u]
                   /\ getPolicy(t)' = Return(p)
                   /\ getMaxReservations(t)' = Return(policyMaxReservations(p))
                   /\ getReservationDuration(t)' = Return(policyDurationDays(p))
       /\ lastCall'.op # "registerPolicy" => policies' = policies]_vars

\* a policy registered for a user type has been replaced by another one
C12_Witness ==
    /\ lastCall.op = "registerPolicy"
    /\ lastCall.user_type = "vip"
    /\ lastCall.policy = StudentReservationPolicy
    /\ policies["student"] = NormalUserReservationPolicy
    /\ getMaxReservations("vip").value = 5

\* C13: with the registry as the static initializer leaves it, "student" resolves to a
\* policy with maximum 5 and duration 14 days and "normal" to one with maximum 3 and
\* duration 7 days; a registerPolicy call for either of them replaces the entry.
C13_DefaultPolicies ==
    /\ policies = DefaultPolicies
          => /\ ~getPolicy("student").throws /\ ~getPolicy("normal").throws
             /\ getMaxReservations("student").value = 5
             /\ getReservationDuration("student").value = 14
             /\ getMaxReservations("normal").value = 3
             /\ getReservationDuration("normal").value = 7
    /\ (lastCall.op = "registerPolicy" /\ lastCall.user_type \in {"student", "normal"})
          => /\ ~getPolicy(lastCall.user_type).throws
             /\ getPolicy(lastCall.user_type).value = lastCall.policy

\* the entry of "student" has been overridden with the policy of normal users
C13_Witness ==
    /\ lastCall.op = "registerPolicy"
    /\ lastCall.user_type = "student"
    /\ lastCall.policy = NormalUserReservationPolicy
    /\ getMaxReservations("student").value = 3
    /\ getReservationDuration("student").value = 7

\* C14: for every registered user type and every reading `now` of the clock,
\* calculateExpirationDate returns now plus the policy's duration in days, and the
\* expiry handleReserve passes to createReservation is that value for the instant at
\* which it computed it.
C14_ComputeExpiry ==
    (lastCall.op = "calculateExpirationDate" /\ policies[lastCall.user_type] # NoPolicy)
        => /\ ~lastCall.result.throws
           /\ lastCall.result.value =
                 lastCall.now + policyDurationDays(policies[lastCall.user_type])
           /\ LET next == afterCount("b1", startReserve(1), 0, lastCall.now)
              IN  next.card.pc = "awaitCreate"
                     => /\ next.card.now = lastCall.now
                        /\ next.card.expiresAt =
                              lastCall.now + policyDurationDays(MockPolicy)

\* a student's expiry is computed in February of a leap year and falls in March
C14_Witness ==
    /\ lastCall.op = "calculateExpirationDate"
    /\ policies[lastCall.user_type] = StudentReservationPolicy
    /\ IsLeap(YearFromTime(lastCall.now))
    /\ MonthFromTime(lastCall.now) = 1
    /\ ~lastCall.result.throws
    /\ MonthFromTime(lastCall.result.value) = 2
    /\ afterCount("b1", startReserve(1), 0, lastCall.now).card.pc = "awaitCreate"

\* C18 as stated: two successive calls of getPolicy, canUserReserve or
\* calculateExpirationDate with identical arguments and no registerPolicy call in
\* between return identical results, whenever they are made.
C18_SameInputsSameOutputs ==
    [][(/\ lastCall.op \in {"getPolicy", "canUserReserve", "calculateExpirationDate"}
        /\ lastCall'.op = lastCall.op
        /\ lastCall'.user_type = lastCall.user_type
        /\ lastCall'.count = lastCall.count)
           => lastCall'.result = lastCall.result]_vars

ActiveCount == Cardinality(ActiveReservationsOf(mockUser.id))

\* C15: when the user's reserves run one at a time and each is given the store's current
\* count of the user's active reservations, the number of the user's active reservations
\* never exceeds the maximum of the policy (5 for the student the cards reserve for).
C15_SequentialLimit ==
    /\ ActiveCount <= policyMaxReservations(MockPolicy)
    /\ MockPolicy = StudentReservationPolicy => ActiveCount <= 5

\* the user holds the maximum and a further reserve, given that count, is refused
C15_Witness ==
    /\ ActiveCount = policyMaxReservations(StudentReservationPolicy)
    /\ alert.title = "Reservation Limit Reached"
    /\ alert.exec.reservationCount = ActiveCount

\* C16: no reserve waits for another one: a card that is not reserving can always start
\* a reserve and a running reserve can always take its next step, whatever the other
\* cards are doing; so two overlapping reserves can read the same count and both create.
C16_NoLock ==
    \A b \in Books :
        (~card[b].reserving /\ ~bookUnavailable(cacheBooks[b]))
            => ENABLED (HandleReserve(b) /\ card'[b].reserving)

\* two overlapping reserves read the same count, both created a reservation, and the
\* user holds more active reservations than the policy allows
C16_Witness ==
    /\ \A b \in Books :
          /\ card[b].pc = "awaitUpdate"
          /\ card[b].createAnswer = "ok"
          /\ card[b].reservationCount = policyMaxReservations(MockPolicy) - 1
    /\ ActiveCount > policyMaxReservations(MockPolicy)

\* a step of handleCancelReservation
CancelStep == cancelOp' # cancelOp \/ alert'.source = "handleCancelReservation"

\* C17: no step of a cancel, whether it succeeds or fails, changes the available_copies
\* (or any other column) of a book.
C17_CancelKeepsCopies ==
    [][CancelStep => books' = books]_vars

\* a cancel has succeeded on a reservation whose book still misses the reserved copy
C17_Witness ==
    /\ CancelAlerted
    /\ alert.title = "Success"
    /\ alert.cancel.answer = "ok"
    /\ reservations[alert.cancel.reservationId].status = "cancelled"
    /\ reservations[alert.cancel.reservationId].book_id = "b1"
    /\ books["b1"].available_copies < cacheBooks["b1"] + 1
    /\ books["b1"].available_copies < books["b1"].total_copies

\* C19 as stated: when a store mutation of reserve or cancel returns no record, the
\* operation reports a failure and not success.
C19_NullRecordReported ==
    /\ (ReserveAlerted /\ "null" \in {alert.exec.createAnswer, alert.exec.updateAnswer})
          => alert.title = "Error"
    /\ (CancelAlerted /\ alert.cancel.answer = "null") => alert.title = "Error"

\* the reservations ever created for book b (rows are never deleted)
ReservationsCreatedFor(b) ==
    Cardinality({i \in DOMAIN reservations : reservations[i].book_id = b})

\* C20 as stated: for every book with no reserve in flight, the drop of available_copies
\* from its initial value (all copies) equals the number of reservations created for it.
C20_AvailabilityConsistent ==
    \A b \in Books :
        card[b].pc = "idle"
            => books[b].total_copies - books[b].available_copies
                   = ReservationsCreatedFor(b)

C22_ReadOnly ==
    [][lastCall'.op \in {"canUserReserve", "getMaxReservations",
                         "getReservationDuration", "calculateExpirationDate"}
          => /\ UNCHANGED <<policies, books, reservations, cacheBooks, cacheRes>>
             /\ (lastCall'.op = "canUserReserve" /\ ~lastCall'.result.throws)
                   => lastCall'.result.value =
                         policyCanReserve(policies[lastCall'.user_type],
                                          [user_type |-> lastCall'.user_type],
                                          lastCall'.count)]_vars

\* a normal user is refused on a supplied count of 3 while the store holds no reservation
C22_Witness ==
    /\ lastCall.op = "canUserReserve"
    /\ lastCall.user_type = "normal"
    /\ policies = DefaultPolicies
    /\ lastCall.count = 3
    /\ Len(reservations) = 0
    /\ ~lastCall.result.throws
    /\ lastCall.result.value = FALSE

\* C27: registerPolicy for one user type leaves getPolicy, getMaxReservations and
\* getReservationDuration of every other user type with the result, or the error, they
\* gave before the call.
C27_RegisterFrame ==
    [][\A t \in UserTypes :
          (lastCall'.op = "registerPolicy" /\ lastCall'.user_type = t)
              => \A d \in UserTypes \ {t} :
                    /\ getPolicy(d)' = getPolicy(d)
                    /\ getMaxReservations(d)'.throws = getMaxReservations(d).throws
                    /\ getMaxReservations(d)'.value = getMaxReservations(d).value
                    /\ getReservationDuration(d)'.throws = getReservationDuration(d).throws
                    /\ getReservationDuration(d)'.value = getReservationDuration(d).value]_vars

\* "normal" has been rebound while "student" keeps its policy and "vip" its error
C27_Witness ==
    /\ lastCall.op = "registerPolicy"
    /\ lastCall.user_type = "normal"
    /\ lastCall.policy = StudentReservationPolicy
    /\ getMaxReservations("normal").value = 5
    /\ policies["student"] = StudentReservationPolicy
    /\ getPolicy("vip").throws

\* C23: no store request is repeated: an execution of handleReserve issues at most one
\* count query, one createReservation and one updateBookAvailability, and an execution
\* of handleCancelReservation at most one cancelReservation, whatever the store answers.
C23_NoRetry ==
    /\ \A b \in Books :
          card[b].countQueries <= 1 /\ card[b].creates <= 1 /\ card[b].updates <= 1
    /\ alert.exec.countQueries <= 1 /\ alert.exec.creates <= 1 /\ alert.exec.updates <= 1
    /\ \A c \in BagToSet(cancelOp) : c.updates <= 1
    /\ alert.cancel.updates <= 1
    /\ (ReserveAlerted /\ alert.title = "Error") => card[alert.book].pc = "idle"

\* the store refused a createReservation and the reserve ended after that one request
C23_Witness ==
    /\ ReserveAlerted
    /\ alert.title = "Error"
    /\ alert.exec.createAnswer = "error"
    /\ alert.exec.creates = 1
    /\ alert.exec.updates = 0
    /\ card[alert.book].pc = "idle"

\* C24: while a card is reserving no second reserve starts from it, the flag is set
\* exactly while an execution is running, and whenever handleReserve ends with an alert
\* (limit reached, success, failure) the card's reserving flag is false again.
C24_ReservingFlag ==
    [][/\ \A b \in Books : card[b].reserving => ~HandleReserve(b)
       /\ \A b \in Books : card'[b].reserving = (card'[b].pc # "idle")
       /\ alert'.source = "handleReserve" => ~card'[alert'.book].reserving]_vars

\* a reserve that was running has ended on the limit and its card is free again
C24_Witness ==
    /\ alert.title = "Reservation Limit Reached"
    /\ alert.exec.reserving
    /\ ~card[alert.book].reserving
    /\ ENABLED HandleReserve(alert.book)

\* C25 as stated: while a cancelReservation request for a reservation is in flight,
\* cancellingReservation equals that reservation's id (its button is disabled), and at
\* most one request per reservation is in flight.
C25_CancelDisabledWhileInFlight ==
    /\ \A c \in Running("awaitCancel") : cancellingReservation = c.reservationId
    /\ \A c \in Running("awaitCancel") : CopiesIn(c, cancelOp) <= 1
    /\ \A c, d \in Running("awaitCancel") : c.reservationId = d.reservationId => c = d

\* the rows RESERVATIONS_QUERY selects for the card's user, whatever their expires_at
ActiveRows(rows) ==
    {i \in DOMAIN rows : rows[i].user_id = mockUser.id /\ rows[i].status = "active"}

\* C26: no step of a reserve changes an existing reservation, and the active-reservation
\* query returns, and handleReserve counts, every active reservation of the user, those
\* past their expires_at included.
C26_ExpiryIgnored ==
    [][/\ \A r \in DOMAIN reservations : reservations'[r] = reservations[r]
       /\ cacheRes' # cacheRes
             => DOMAIN cacheRes'.status = ActiveRows(reservations)
       /\ \A b \in Books :
             (card[b].pc = "awaitCount" /\ ~card[b].fromCache /\ cacheRes'.loaded)
                 => /\ card'[b].pc = "awaitCreate"
                          => card'[b].reservationCount =
                                Cardinality(ActiveRows(reservations))
                    /\ (alert'.title = "Reservation Limit Reached" /\ alert'.book = b)
                          => alert'.exec.reservationCount =
                                Cardinality(ActiveRows(reservations))]_vars

\* a reserve made after every existing reservation expired has counted them all
C26_Witness ==
    \E b \in Books :
        /\ card[b].pc = "awaitCreate"
        /\ ~card[b].fromCache
        /\ card[b].reservationCount = Len(reservations)
        /\ Len(reservations) > 0
        /\ \A i \in DOMAIN reservations :
              /\ reservations[i].status = "active"
              /\ reservations[i].expires_at < card[b].now

\* the session from which checkAuthStatus restores a user
Restorable(session) ==
    /\ session.is_authenticated
    /\ session.user_id # NoUser
    /\ session.user_data # NoUser

\* C28: when a logout has finished, whatever its storage and cache calls answered, the
\* context's user is null, getCurrentUser() is null and no session is left from which
\* checkAuthStatus would restore a user.
C28_LoggedOutEverywhere ==
    auth.last.op = "logout"
        => /\ auth.user = NoUser
           /\ getCurrentUser(auth) = NoUser
           /\ ~Restorable(auth.session)

\* C29: a call of loginUser succeeds exactly when the input was valid, the query found
\* a user and the whole session was stored; then the service and the context hold
\* that user; otherwise the service's currentUser and the context's user are the ones
\* from before the call and the context holds an error.
C29_LoginFailure ==
    auth.last.loginUser
        => /\ auth.last.success
                <=> /\ auth.last.valid
                    /\ auth.last.found \in Users
                    /\ auth.last.written = SESSION_KEYS
           /\ auth.last.success
                => /\ getCurrentUser(auth) = auth.last.found
                   /\ auth.user = auth.last.found
                   /\ auth.session = multiSet(EmptySession, auth.last.found, SESSION_KEYS)
           /\ ~auth.last.success
                => /\ getCurrentUser(auth) = auth.last.currentUser
                   /\ auth.user = auth.last.user
                   /\ auth.error # NoError

\* a login that found a user but could not store the session, made while the service
\* still held another user
C29_Witness ==
    /\ auth.last.op = "login"
    /\ ~auth.last.success
    /\ auth.last.valid
    /\ auth.last.found \in Users
    /\ auth.last.currentUser \in Users \ {auth.last.found}
    /\ auth.error = "Login failed. Please try again."

\* C30: the tabs are rendered only with a non-null user and isLoading false; a user
\* that checkAuthStatus restored was persisted with the authenticated flag, the user
\* id and the user data; and isLoading is false when checkAuthStatus, login, register
\* or logout has finished.
C30_TabsOnlyWhenSignedIn ==
    /\ AppContent(auth) = "(tabs)" => (auth.user # NoUser /\ ~auth.isLoading)
    /\ (auth.last.op = "checkAuthStatus" /\ auth.user # NoUser)
          => (Restorable(auth.session) /\ auth.user = auth.session.user_data)
    /\ auth.last.op \in {"checkAuthStatus", "login", "register", "logout"}
          => ~auth.isLoading

\* the tabs shown after checkAuthStatus restored the user of an earlier login
C30_Witness ==
    /\ auth.last.op = "checkAuthStatus"
    /\ auth.last.success
    /\ AppContent(auth) = "(tabs)"

====
